---- MODULE Spec2Model ----
(***************************************************************************)
(* The proof-of-work nonce search of bitchan/bitmessage: pow() and its     *)
(* worker threads (src/src/pow.cc) and the Node binding powAsync           *)
(* (src/src/worker.cc).                                                    *)
(*                                                                         *)
(* Scaling.  A byte has ByteBits bits and a uint64_t is four such bytes    *)
(* (two 2-byte halves, as the real one is two 4-byte halves), so that      *)
(* unsigned arithmetic is modulo WordMod = 2^(4*ByteBits) and the wrap of  *)
(* the nonce counter is within reach.  The host is little-endian, as the   *)
(* comment at pow.cc:85-86 assumes.  SHA512 is an external function; it is *)
(* modelled as a fixed deterministic function of the bytes it is given.    *)
(***************************************************************************)
EXTENDS Integers, Sequences, FiniteSets, TLC

----------------------------------------------------------------------------
(* Bounds of the model *)

\* bits per byte of the scaled machine word
ByteBits == 3

\* threads the system lets one call create: pthread_create fails (EAGAIN)
\* at the latest when this many threads of the call exist
MaxThreads == 4

----------------------------------------------------------------------------
(* Program constants *)

RESULT_OK == 0
RESULT_OVERFLOW == -1
RESULT_ERROR == -2
RESULT_BAD_INPUT == -3
RESULT_NOT_READY == -4

MAX_POOL_SIZE == 1024
HASH_SIZE == 64

ByteMod == 2 ^ ByteBits
HalfMod == ByteMod * ByteMod
WordMod == HalfMod * HalfMod

UINT64_MAX == WordMod - 1
INT64_MAX == (WordMod \div 2) - 1
\* 2^53 - 1 of a 64-bit word, scaled to the word of the model
MAX_SAFE_INTEGER == (2 ^ ((53 * 4 * ByteBits) \div 64)) - 1

----------------------------------------------------------------------------
(* Byte order: pow.cc:39-46 and the loads and stores of pow.cc:75-76,87,94 *)

\* ntohl of a little-endian host: the bytes of a half word reversed
ntohl(x) == (x % ByteMod) * ByteMod + (x \div ByteMod)

ntohll_halves_not_swapped(x) ==
    ntohl(x \div HalfMod) * HalfMod + ntohl(((x * HalfMod) % WordMod) \div HalfMod)

\* ((uint64_t)ntohl((x << 32) >> 32) << 32) | ntohl(x >> 32)
ntohll(x) ==
    ntohl(((x * HalfMod) % WordMod) \div HalfMod) * HalfMod + ntohl(x \div HalfMod)

\* F applied to the value of x: x is evaluated once, whatever use F makes of it
Eval(F(_), x) == CHOOSE r \in {F(v) : v \in {x}} : TRUE

\* *be_nonce = v: the bytes a little-endian host stores for the word v
StoreWord(v) ==
    << v % ByteMod, (v \div ByteMod) % ByteMod,
       (v \div (ByteMod ^ 2)) % ByteMod, (v \div (ByteMod ^ 3)) % ByteMod >>

\* *be_trial: the word a little-endian host loads from the first bytes of b
LoadWord(b) == b[1] + b[2] * ByteMod + b[3] * ByteMod ^ 2 + b[4] * ByteMod ^ 3

\* the word a digest starts with, as a number
Mix(seed) == (seed * 613 + (seed % 127) * (seed % 127)) % WordMod

\* SHA512_Init/Update/Final of OpenSSL: a fixed function of the data.  Of the
\* HASH_SIZE bytes of the digest only the leading word, the one *be_trial
\* reads, is modelled
SHA512(data) ==
    Eval(StoreWord, Eval(Mix,
        data[1] * ByteMod ^ 3 + data[2] * ByteMod ^ 2 + data[3] * ByteMod
        + data[4] + 31 * data[Len(data)] + 17 * data[(Len(data) \div 2) + 1]
        + Len(data)))

\* message = be_nonce bytes followed by the initial hash (pow.cc:68,74,87)
Message(i, initial_hash) == Eval(StoreWord, Eval(ntohll, i)) \o initial_hash

\* the double hash (pow.cc:88-93)
DoubleHash(message) == Eval(SHA512, Eval(SHA512, message))

\* ntohll(*be_trial) of the candidate i (pow.cc:87-94)
Trial(i, initial_hash) ==
    Eval(ntohll, Eval(LoadWord, Eval(DoubleHash, Message(i, initial_hash))))

\* Wire format, independent of the host: a word as big-endian bytes and back
BigEndianBytes(v) ==
    << (v \div (ByteMod ^ 3)) % ByteMod, (v \div (ByteMod ^ 2)) % ByteMod,
       (v \div ByteMod) % ByteMod, v % ByteMod >>
BigEndianValue(b) == b[1] * ByteMod ^ 3 + b[2] * ByteMod ^ 2 + b[3] * ByteMod + b[4]

\* The derived value an independent verifier computes for a nonce
Derived(nonce, initial_hash) ==
    Eval(BigEndianValue,
         Eval(SHA512, Eval(SHA512, Eval(BigEndianBytes, nonce) \o initial_hash)))

----------------------------------------------------------------------------
(* Inputs *)

Searches == {1, 2}
Workers == 0..(MaxThreads - 1)

\* thread identities for the owner of the mutex: worker num, or the caller
MainThread == MAX_POOL_SIZE
NoThread == MAX_POOL_SIZE + 1

\* the caller's *nonce before pow() has written it
Unwritten == UINT64_MAX + 1
\* pow() has not returned
NoReturn == RESULT_NOT_READY - 1

Buffer(fill, n) == [k \in 1..n |-> fill]

PoolSizes == {0, 1, 2, 3, 4, MAX_POOL_SIZE, MAX_POOL_SIZE + 1}
Targets == {0, (WordMod * 5) \div 8, UINT64_MAX}
MaxNonces == {0, 1, 2, 1000, UINT64_MAX - 1, UINT64_MAX}
Digests == {Buffer(0, HASH_SIZE), Buffer(1, HASH_SIZE)}
JsBuffers == Digests \cup {Buffer(0, HASH_SIZE - 1), Buffer(1, HASH_SIZE + 1)}
JsPoolSizes == {0, 1, 2, MAX_POOL_SIZE + 1}

\* Searches of several workers for a target no candidate meets are taken with
\* a small max_nonce only: every other search ends, or cycles, within a few
\* candidates per worker or has one worker.  A pool larger than any that can
\* be created in full is taken with one digest and two values of max_nonce
BoundedSearch(pool_size, target, initial_hash, max_nonce) ==
    /\ (pool_size >= 2 /\ target = 0) => max_nonce \in {1, 2}
    /\ (4 < pool_size /\ pool_size <= MAX_POOL_SIZE) =>
            /\ max_nonce \in {1, 1000}
            /\ initial_hash = Buffer(0, HASH_SIZE)

\* a direct call pow(pool_size, target, initial_hash, max_nonce, &nonce)
PowCalls ==
    { [entry |-> "pow", typed |-> TRUE, pool_size |-> p, target |-> t,
       initial_hash |-> h, max_nonce |-> m, malloc_ok |-> TRUE] :
      <<p, t, h, m>> \in
        { x \in PoolSizes \X Targets \X Digests \X MaxNonces :
            BoundedSearch(x[1], x[2], x[3], x[4]) } }

\* a call powAsync(pool_size, target, initial_hash, cb) from JavaScript;
\* typed: there are four arguments of the types worker.cc:71-75 asks for
PowAsyncCalls ==
    { [entry |-> "powAsync", typed |-> ty, pool_size |-> p, target |-> t,
       initial_hash |-> h, max_nonce |-> 0, malloc_ok |-> ok] :
      <<ty, p, t, h, ok>> \in
        { x \in BOOLEAN \X JsPoolSizes \X Targets \X JsBuffers \X BOOLEAN :
            BoundedSearch(x[2], x[3], x[4], MAX_SAFE_INTEGER) } }

NoCall == [entry |-> "none", typed |-> FALSE, pool_size |-> 0, target |-> 0,
           initial_hash |-> <<>>, max_nonce |-> 0, malloc_ok |-> FALSE]

NoParams == [pool_size |-> 0, target |-> 0, initial_hash |-> <<>>, max_nonce |-> 0]

NoPowArgs == [live |-> FALSE, max_nonce |-> 0, result |-> RESULT_NOT_READY, nonce |-> 0]

NoMutex == [st |-> "none", owner |-> NoThread]

----------------------------------------------------------------------------
(* State *)

VARIABLES
    args,       \* the call each search was started with
    jpc,        \* powAsync: "none", "call", "queued", "execute", "done", "threw"
    thrown,     \* powAsync: the JavaScript exception thrown, "" when none
    callbacks,  \* powAsync: the calls of the completion callback, in order
    error,      \* PowWorker::error
    params,     \* the parameters of pow()
    mpc,        \* pow(): where its calling thread is
    loop_i,     \* pow(): size_t i of the spawn and join loops
    pow_args,   \* PowArgs pow_args: max_nonce, result, nonce
    mutex,      \* pthread_mutex_t mutex
    ret,        \* the value pow() returned
    out_nonce,  \* the caller's *nonce
    wpc,        \* pow_thread of each worker: where it is
    wi,         \* pow_thread: uint64_t i
    wset,       \* pow_thread: the arguments of its set_result call
    failed,     \* the index pthread_create failed for, NoThread when none did
    joined,     \* the workers pthread_join has returned for
    writes,     \* the set_result calls that stored, in order
    hashed      \* a SHA512 was computed

vars == <<args, jpc, thrown, callbacks, error, params, mpc, loop_i, pow_args,
          mutex, ret, out_nonce, wpc, wi, wset, failed, joined, writes, hashed>>

jsVars == <<jpc, thrown, callbacks, error>>
workerVars == <<wpc, wi, wset>>

\* The state after the calls `calls` have been made: calls[s] is NoCall for a
\* search that is never started
InitWith(calls) ==
    /\ args = calls
    /\ jpc = [s \in Searches |->
                IF calls[s].entry = "powAsync" THEN "call" ELSE "none"]
    /\ thrown = [s \in Searches |-> ""]
    /\ callbacks = [s \in Searches |-> <<>>]
    /\ error = [s \in Searches |-> NoReturn]
    /\ params = [s \in Searches |->
                   IF calls[s].entry = "pow"
                   THEN [pool_size |-> calls[s].pool_size,
                         target |-> calls[s].target,
                         initial_hash |-> calls[s].initial_hash,
                         max_nonce |-> calls[s].max_nonce]
                   ELSE NoParams]
    /\ mpc = [s \in Searches |-> IF calls[s].entry = "pow" THEN "begin" ELSE "idle"]
    /\ loop_i = [s \in Searches |-> 0]
    /\ pow_args = [s \in Searches |-> NoPowArgs]
    /\ mutex = [s \in Searches |-> NoMutex]
    /\ ret = [s \in Searches |-> NoReturn]
    /\ out_nonce = [s \in Searches |-> Unwritten]
    /\ wpc = [s \in Searches |-> [k \in Workers |-> "unborn"]]
    /\ wi = [s \in Searches |-> [k \in Workers |-> 0]]
    /\ wset = [s \in Searches |->
                 [k \in Workers |-> [res |-> RESULT_NOT_READY, nonce |-> 0]]]
    /\ failed = [s \in Searches |-> NoThread]
    /\ joined = [s \in Searches |-> {}]
    /\ writes = [s \in Searches |-> <<>>]
    /\ hashed = [s \in Searches |-> FALSE]

\* One search, started by a direct call of pow() or through powAsync
Init ==
    \E c \in PowCalls \cup PowAsyncCalls :
        InitWith([s \in Searches |-> IF s = 1 THEN c ELSE NoCall])

----------------------------------------------------------------------------
(* set_result, pow.cc:48-56, in the three steps a thread takes through it *)

\* a lock that is taken without waiting for its holder
MutexLockNoWait(s, t) ==
    mutex' = [mutex EXCEPT ![s] = [st |-> "locked", owner |-> t]]

\* pthread_mutex_lock(pow_args->mutex) by thread t: blocks while it is held
MutexLock(s, t) ==
    /\ mutex[s].st = "unlocked"
    /\ mutex' = [mutex EXCEPT ![s] = [st |-> "locked", owner |-> t]]

\* pthread_mutex_unlock(pow_args->mutex) by thread t
MutexUnlock(s, t) ==
    /\ mutex[s] = [st |-> "locked", owner |-> t]
    /\ mutex' = [mutex EXCEPT ![s] = [st |-> "unlocked", owner |-> NoThread]]

\* pow.cc:51-54 without the test of line 51
StoreAlways(pa, res, nonce) == [pa EXCEPT !.result = res, !.nonce = nonce]

\* if (pow_args->result == RESULT_NOT_READY) { result = res; nonce = nonce; }
StoreIfNotReady(pa, res, nonce) ==
    IF pa.result = RESULT_NOT_READY
    THEN [pa EXCEPT !.result = res, !.nonce = nonce]
    ELSE pa

\* the body of set_result run by thread t, which holds the mutex
SetResultBody(s, t, res, nonce) ==
    /\ mutex[s] = [st |-> "locked", owner |-> t]
    /\ pow_args' = [pow_args EXCEPT ![s] = StoreIfNotReady(pow_args[s], res, nonce)]
    /\ writes' = [writes EXCEPT ![s] =
                    IF pow_args'[s] # pow_args[s]
                    THEN Append(@, [by |-> t, res |-> res, nonce |-> nonce])
                    ELSE @]

----------------------------------------------------------------------------
(* pow_thread, pow.cc:58-101 *)

\* the test of pow.cc:81 with the comparison the wrong way round
OverflowedInverted(i, max_nonce) == i < max_nonce

\* the bound of pow.cc:81 taken one too large
OverflowedLate(i, max_nonce) == i > max_nonce + 1

\* if (i > max_nonce)
Overflowed(i, max_nonce) == i > max_nonce

\* the comparison of pow.cc:94 with the sense of a maximum
MeetsTargetAbove(trial, target) == trial >= target

\* if (ntohll(*be_trial) <= target)
MeetsTarget(trial, target) == trial <= target

\* i += pool_size without the advance
NextCandidateStuck(i, pool_size) == i

\* i += pool_size, in uint64_t
NextCandidate(i, pool_size) == (i + pool_size) % WordMod

\* the result a worker of another call's making would read: PowArgs kept in
\* one place for every call
PolledResultOfFirstCall(s) == pow_args[1].result

\* pow_args->result as pow_thread reads it at pow.cc:78, without the mutex:
\* the result of the PowArgs of its own call
PolledResult(s) == pow_args[s].result

\* a loop that does not look at the result
LoopContinuesRegardless(result) == TRUE

\* while (pow_args->result == RESULT_NOT_READY)
LoopContinues(result) == result = RESULT_NOT_READY

\* while (pow_args->result == RESULT_NOT_READY), read without the mutex, and
\* the test of the counter that follows it (pow.cc:78-84)
WorkerPoll(s, k) ==
    /\ wpc[s][k] = "poll"
    /\ IF ~LoopContinues(PolledResult(s))
       THEN /\ wpc' = [wpc EXCEPT ![s][k] = "exited"]
            /\ wset' = wset
       ELSE IF Overflowed(wi[s][k], pow_args[s].max_nonce)
       THEN /\ wpc' = [wpc EXCEPT ![s][k] = "sr_lock"]
            /\ wset' = [wset EXCEPT ![s][k] = [res |-> RESULT_OVERFLOW, nonce |-> 0]]
       ELSE /\ wpc' = [wpc EXCEPT ![s][k] = "hash"]
            /\ wset' = wset
    /\ UNCHANGED <<args, jsVars, params, mpc, loop_i, pow_args, mutex, ret,
                   out_nonce, wi, failed, joined, writes, hashed>>

\* one candidate: encode, hash twice, compare, advance (pow.cc:87-98)
WorkerHash(s, k) ==
    /\ wpc[s][k] = "hash"
    /\ hashed' = [hashed EXCEPT ![s] = TRUE]
    /\ IF MeetsTarget(Trial(wi[s][k], params[s].initial_hash), params[s].target)
       THEN /\ wpc' = [wpc EXCEPT ![s][k] = "sr_lock"]
            /\ wset' = [wset EXCEPT ![s][k] = [res |-> RESULT_OK, nonce |-> wi[s][k]]]
            /\ wi' = wi
       ELSE /\ wpc' = [wpc EXCEPT ![s][k] = "poll"]
            /\ wi' = [wi EXCEPT ![s][k] = NextCandidate(@, params[s].pool_size)]
            /\ wset' = wset
    /\ UNCHANGED <<args, jsVars, params, mpc, loop_i, pow_args, mutex, ret,
                   out_nonce, failed, joined, writes>>

\* set_result called by a worker (pow.cc:82, 95): lock
WorkerLock(s, k) ==
    /\ wpc[s][k] = "sr_lock"
    /\ MutexLock(s, k)
    /\ wpc' = [wpc EXCEPT ![s][k] = "sr_store"]
    /\ UNCHANGED <<args, jsVars, params, mpc, loop_i, pow_args, ret, out_nonce,
                   wi, wset, failed, joined, writes, hashed>>

\* set_result called by a worker: test and store
WorkerStore(s, k) ==
    /\ wpc[s][k] = "sr_store"
    /\ SetResultBody(s, k, wset[s][k].res, wset[s][k].nonce)
    /\ wpc' = [wpc EXCEPT ![s][k] = "sr_unlock"]
    /\ UNCHANGED <<args, jsVars, params, mpc, loop_i, mutex, ret, out_nonce,
                   wi, wset, failed, joined, hashed>>

\* set_result called by a worker: unlock, and return NULL (pow.cc:83, 96)
WorkerUnlock(s, k) ==
    /\ wpc[s][k] = "sr_unlock"
    /\ MutexUnlock(s, k)
    /\ wpc' = [wpc EXCEPT ![s][k] = "exited"]
    /\ UNCHANGED <<args, jsVars, params, mpc, loop_i, pow_args, ret, out_nonce,
                   wi, wset, failed, joined, writes, hashed>>

----------------------------------------------------------------------------
(* pow, pow.cc:103-151 *)

\* the test of pow.cc:108 without its lower bound
ValidPoolSizeNoLowerBound(pool_size) == ~(pool_size > MAX_POOL_SIZE)

\* if (pool_size < 1 || pool_size > MAX_POOL_SIZE) return RESULT_BAD_INPUT;
ValidPoolSize(pool_size) == ~(pool_size < 1 \/ pool_size > MAX_POOL_SIZE)

\* pow_args.max_nonce = max_nonce, without the default
EffectiveMaxNonceNoDefault(max_nonce) == max_nonce

\* max_nonce ? max_nonce : INT64_MAX
EffectiveMaxNonce(max_nonce) == IF max_nonce # 0 THEN max_nonce ELSE INT64_MAX

\* pthread_create may fail for any thread, and does once the call has
\* MaxThreads of them
MayCreate(i) == i < MaxThreads

\* while (--i): the loop ends before thread 0 is joined
JoinLoopEndsEarly(i) == i <= 1

\* while (i--): the loop ends when i is 0
JoinLoopEnds(i) == i = 0

\* pthread_join that does not wait for the thread
JoinReturnsAtOnce(pc) == TRUE

\* pthread_join(threads[i], NULL) returns once the thread has returned
JoinReturns(pc) == pc = "exited"

\* pow() returns v; PowWorker::Execute assigns it to error (worker.cc:38)
Return(s, v) ==
    /\ ret' = [ret EXCEPT ![s] = v]
    /\ error' = [error EXCEPT ![s] = IF jpc[s] = "execute" THEN v ELSE @]
    /\ mpc' = [mpc EXCEPT ![s] = "returned"]

\* *nonce = pow_args.nonce whatever the result
NonceForCallerAlways(pa, old) == pa.nonce

\* if (pow_args.result == RESULT_OK) *nonce = pow_args.nonce;
NonceForCaller(pa, old) == IF pa.result = RESULT_OK THEN pa.nonce ELSE old

\* entry: the test of the pool size, then the structures on the stack
\* (pow.cc:108-127)
PowBegin(s) ==
    /\ mpc[s] = "begin"
    /\ IF ~ValidPoolSize(params[s].pool_size)
       THEN /\ Return(s, RESULT_BAD_INPUT)
            /\ UNCHANGED <<mutex, pow_args, loop_i>>
       ELSE /\ mutex' = [mutex EXCEPT ![s] = [st |-> "unlocked", owner |-> NoThread]]
            /\ pow_args' = [pow_args EXCEPT ![s] =
                 [live |-> TRUE,
                  max_nonce |-> EffectiveMaxNonce(params[s].max_nonce),
                  result |-> RESULT_NOT_READY,
                  nonce |-> 0]]
            /\ loop_i' = [loop_i EXCEPT ![s] = 0]
            /\ mpc' = [mpc EXCEPT ![s] =
                 IF 0 < params[s].pool_size THEN "spawn" ELSE "join"]
            /\ UNCHANGED <<ret, error>>
    /\ UNCHANGED <<args, jpc, thrown, callbacks, params, out_nonce, workerVars,
                   failed, joined, writes, hashed>>

\* one turn of the spawn loop (pow.cc:130-138): pthread_create starts worker
\* i, or fails and the loop is left for set_result(RESULT_ERROR)
PowSpawn(s) ==
    /\ mpc[s] = "spawn"
    /\ \E created \in BOOLEAN :
        /\ created => MayCreate(loop_i[s])
        /\ IF created
           THEN /\ wpc' = [wpc EXCEPT ![s][loop_i[s]] = "poll"]
                /\ wi' = [wi EXCEPT ![s][loop_i[s]] = loop_i[s]]
                /\ loop_i' = [loop_i EXCEPT ![s] = @ + 1]
                /\ mpc' = [mpc EXCEPT ![s] =
                     IF loop_i[s] + 1 < params[s].pool_size THEN "spawn" ELSE "join"]
                /\ failed' = failed
           ELSE /\ mpc' = [mpc EXCEPT ![s] = "sr_lock"]
                /\ failed' = [failed EXCEPT ![s] = loop_i[s]]
                /\ UNCHANGED <<wpc, wi, loop_i>>
    /\ UNCHANGED <<args, jsVars, params, pow_args, mutex, ret, out_nonce, wset,
                   joined, writes, hashed>>

\* set_result(&pow_args, RESULT_ERROR, 0) of pow.cc:135: lock
PowErrorLock(s) ==
    /\ mpc[s] = "sr_lock"
    /\ MutexLock(s, MainThread)
    /\ mpc' = [mpc EXCEPT ![s] = "sr_store"]
    /\ UNCHANGED <<args, jsVars, params, loop_i, pow_args, ret, out_nonce,
                   workerVars, failed, joined, writes, hashed>>

\* set_result(&pow_args, RESULT_ERROR, 0): test and store
PowErrorStore(s) ==
    /\ mpc[s] = "sr_store"
    /\ SetResultBody(s, MainThread, RESULT_ERROR, 0)
    /\ mpc' = [mpc EXCEPT ![s] = "sr_unlock"]
    /\ UNCHANGED <<args, jsVars, params, loop_i, mutex, ret, out_nonce,
                   workerVars, failed, joined, hashed>>

\* set_result(&pow_args, RESULT_ERROR, 0): unlock, and break
PowErrorUnlock(s) ==
    /\ mpc[s] = "sr_unlock"
    /\ MutexUnlock(s, MainThread)
    /\ mpc' = [mpc EXCEPT ![s] = "join"]
    /\ UNCHANGED <<args, jsVars, params, loop_i, pow_args, ret, out_nonce,
                   workerVars, failed, joined, writes, hashed>>

\* one turn of while (i--) pthread_join(threads[i], NULL) (pow.cc:141-143)
PowJoin(s) ==
    /\ mpc[s] = "join"
    /\ IF JoinLoopEnds(loop_i[s])
       THEN /\ mpc' = [mpc EXCEPT ![s] = "finish"]
            /\ UNCHANGED <<loop_i, joined>>
       ELSE /\ JoinReturns(wpc[s][loop_i[s] - 1])
            /\ loop_i' = [loop_i EXCEPT ![s] = @ - 1]
            /\ joined' = [joined EXCEPT ![s] = @ \cup {loop_i[s] - 1}]
            /\ mpc' = mpc
    /\ UNCHANGED <<args, jsVars, params, pow_args, mutex, ret, out_nonce,
                   workerVars, failed, writes, hashed>>

\* the nonce for the caller, pthread_mutex_destroy, return (pow.cc:146-150)
PowFinish(s) ==
    /\ mpc[s] = "finish"
    /\ out_nonce' = [out_nonce EXCEPT ![s] = NonceForCaller(pow_args[s], @)]
    /\ mutex' = [mutex EXCEPT ![s] = [st |-> "destroyed", owner |-> @.owner]]
    /\ Return(s, pow_args[s].result)
    /\ UNCHANGED <<args, jpc, thrown, callbacks, params, loop_i, pow_args,
                   workerVars, failed, joined, writes, hashed>>

----------------------------------------------------------------------------
(* powAsync, worker.cc:18-98 *)

\* the test of worker.cc:83 without the length
JsInputOkAnyLength(pool_size, length) ==
    ~(pool_size < 1 \/ pool_size > MAX_POOL_SIZE)

\* if (pool_size < 1 || pool_size > MAX_POOL_SIZE || length != HASH_SIZE)
JsInputOk(pool_size, length) ==
    ~(pool_size < 1 \/ pool_size > MAX_POOL_SIZE \/ length # HASH_SIZE)

\* NanNew<Integer>(nonce): a v8::Integer is made from an int32_t, half a word
NanNewInteger(nonce) ==
    LET low == nonce % HalfMod
    IN  IF low >= HalfMod \div 2 THEN low - HalfMod ELSE low

\* NAN_METHOD(PowAsync), worker.cc:68-98: throws, or queues a PowWorker
PowAsync(s) ==
    /\ jpc[s] = "call"
    /\ IF ~args[s].typed
       THEN /\ thrown' = [thrown EXCEPT ![s] = "Bad input"]
            /\ jpc' = [jpc EXCEPT ![s] = "threw"]
       ELSE IF ~JsInputOk(args[s].pool_size, Len(args[s].initial_hash))
       THEN /\ thrown' = [thrown EXCEPT ![s] = "Bad input"]
            /\ jpc' = [jpc EXCEPT ![s] = "threw"]
       ELSE IF ~args[s].malloc_ok
       THEN /\ thrown' = [thrown EXCEPT ![s] = "Internal error"]
            /\ jpc' = [jpc EXCEPT ![s] = "threw"]
       ELSE /\ thrown' = thrown
            /\ jpc' = [jpc EXCEPT ![s] = "queued"]
    /\ UNCHANGED <<args, callbacks, error, params, mpc, loop_i, pow_args, mutex,
                   ret, out_nonce, workerVars, failed, joined, writes, hashed>>

\* PowWorker::Execute, worker.cc:37-39, on a thread of the pool: calls pow()
Execute(s) ==
    /\ jpc[s] = "queued"
    /\ jpc' = [jpc EXCEPT ![s] = "execute"]
    /\ params' = [params EXCEPT ![s] =
         [pool_size |-> args[s].pool_size, target |-> args[s].target,
          initial_hash |-> args[s].initial_hash, max_nonce |-> MAX_SAFE_INTEGER]]
    /\ mpc' = [mpc EXCEPT ![s] = "begin"]
    /\ UNCHANGED <<args, thrown, callbacks, error, loop_i, pow_args, mutex, ret,
                   out_nonce, workerVars, failed, joined, writes, hashed>>

\* PowWorker::HandleOKCallback, worker.cc:44-58, once Execute has returned
HandleOKCallback(s) ==
    /\ jpc[s] = "execute"
    /\ mpc[s] = "returned"
    /\ callbacks' = [callbacks EXCEPT ![s] = Append(@,
         IF error[s] # 0
         THEN [err |-> IF error[s] = -1 THEN "Max safe integer overflow"
                                         ELSE "Internal error",
               nonce |-> Unwritten]
         ELSE [err |-> "", nonce |-> NanNewInteger(out_nonce[s])])]
    /\ jpc' = [jpc EXCEPT ![s] = "done"]
    /\ UNCHANGED <<args, thrown, error, params, mpc, loop_i, pow_args, mutex,
                   ret, out_nonce, workerVars, failed, joined, writes, hashed>>

----------------------------------------------------------------------------
(* The program *)

WorkerStep(s, k) ==
    \/ WorkerPoll(s, k)
    \/ WorkerHash(s, k)
    \/ WorkerLock(s, k)
    \/ WorkerStore(s, k)
    \/ WorkerUnlock(s, k)

PowStep(s) ==
    \/ PowBegin(s)
    \/ PowSpawn(s)
    \/ PowErrorLock(s)
    \/ PowErrorStore(s)
    \/ PowErrorUnlock(s)
    \/ PowJoin(s)
    \/ PowFinish(s)

JsStep(s) ==
    \/ PowAsync(s)
    \/ Execute(s)
    \/ HandleOKCallback(s)

Next ==
    \E s \in Searches :
        \/ JsStep(s)
        \/ PowStep(s)
        \/ \E k \in Workers : WorkerStep(s, k)

Spec == Init /\ [][Next]_vars

\* Every thread that can take a step is scheduled in the end: the thread
\* calling pow(), each worker thread, and the event loop of the JavaScript side
Fairness ==
    \A s \in Searches :
        /\ WF_vars(PowStep(s))
        /\ WF_vars(JsStep(s))
        /\ \A k \in Workers : WF_vars(WorkerStep(s, k))

FairSpec == Spec /\ Fairness

\* A search of three workers that never ends: no nonce meets the target and
\* max_nonce is the largest uint64_t, so no counter is ever above it
LongCall ==
    [entry |-> "pow", typed |-> TRUE, pool_size |-> 3, target |-> 0,
     initial_hash |-> Buffer(0, HASH_SIZE), max_nonce |-> UINT64_MAX,
     malloc_ok |-> TRUE]

OneRunnerInit ==
    \E c \in PowCalls \cup PowAsyncCalls \cup {LongCall} :
        InitWith([s \in Searches |-> IF s = 1 THEN c ELSE NoCall])

\* The runs of the program in which, of the workers of the long search, the
\* system schedules worker 0 only: the others are created and wait for a
\* processor.  Every other search is scheduled freely
OneRunnerNext ==
    \E s \in Searches :
        \/ JsStep(s)
        \/ PowStep(s)
        \/ \E k \in Workers :
              /\ args[s] = LongCall => k = 0
              /\ WorkerStep(s, k)

OneRunnerSpec == OneRunnerInit /\ [][OneRunnerNext]_vars

\* Two searches in one process, each started by a call of its own: a search
\* of two workers that finds a nonce, one that finds none, and one started
\* from JavaScript
TwoCalls ==
    { c \in PowCalls :
        /\ c.pool_size = 2
        /\ c.initial_hash = Buffer(0, HASH_SIZE)
        /\ \/ c.target = (WordMod * 5) \div 8 /\ c.max_nonce = 2
           \/ c.target = 0 /\ c.max_nonce = 1 }
    \cup
    { c \in PowAsyncCalls :
        /\ c.typed /\ c.malloc_ok
        /\ c.pool_size = 1
        /\ c.target = UINT64_MAX
        /\ c.initial_hash = Buffer(0, HASH_SIZE) }

TwoInit ==
    \E c, d \in TwoCalls :
        InitWith([s \in Searches |-> IF s = 1 THEN c ELSE d])

TwoSpec == TwoInit /\ [][Next]_vars

----------------------------------------------------------------------------
(* Vocabulary of the properties *)

Returned(s) == mpc[s] = "returned"

\* the workers pthread_create has started
Launched(s) == {k \in Workers : wpc[s][k] # "unborn"}

\* the workers that are still running
Running(s) == {k \in Workers : wpc[s][k] \notin {"unborn", "exited"}}

\* the workers that have called set_result and returned from it
Reported(s) == {k \in Workers : wpc[s][k] = "exited"
                                /\ wset[s][k].res # RESULT_NOT_READY}

\* every pthread_create of the call has succeeded
AllSpawned(s) ==
    /\ pow_args[s].live
    /\ failed[s] = NoThread
    /\ mpc[s] \in {"join", "finish", "returned"}

\* nonce n passes the check of an independent verifier
Satisfies(n, initial_hash, target) == Derived(n, initial_hash) <= target

\* the digests and targets of the inputs that no nonce of a word satisfies
Unsatisfiable ==
    UNION { IF \A n \in 0..UINT64_MAX : ~Satisfies(n, x[1], x[2]) THEN {x} ELSE {} :
            x \in (Digests \cup JsBuffers) \X Targets }

\* no nonce in [0, max_nonce] satisfies the target of search s, max_nonce
\* being the bound the workers use
NoSolution(s) ==
    \/ <<params[s].initial_hash, params[s].target>> \in Unsatisfiable
    \/ \A n \in 0..pow_args[s].max_nonce :
          ~Satisfies(n, params[s].initial_hash, params[s].target)

----------------------------------------------------------------------------
(* Properties *)

\* C1: whenever pow() returns 0, the nonce it stored in *nonce meets the
\* target: the big-endian value of the leading word of
\* Hash(Hash(be64(nonce) || initial_hash)) is at most target, whichever
\* worker won and whatever the pool size and the interleaving
C1_ReturnedNonceMeetsTarget ==
    \A s \in Searches :
        (Returned(s) /\ ret[s] = RESULT_OK) =>
            /\ out_nonce[s] \in 0..UINT64_MAX
            /\ Derived(out_nonce[s], params[s].initial_hash) <= params[s].target

\* a search of several workers has returned a nonce other than 0, found by a
\* worker other than worker 0, for a target some candidates miss
C1_Witness ==
    \E s \in Searches :
        /\ Returned(s) /\ ret[s] = RESULT_OK
        /\ params[s].pool_size >= 2
        /\ params[s].target < UINT64_MAX
        /\ out_nonce[s] > params[s].pool_size
        /\ Cardinality(Reported(s)) >= 2

\* C2: the Outcome (result, nonce) is written once: at most one set_result
\* call stores, no later call by a worker or by the launch step changes the
\* pair, and the pair stored is the one passed by the caller that found the
\* result not ready
C2_OutcomeWrittenOnce ==
    \A s \in Searches :
        /\ Len(writes[s]) <= 1
        /\ pow_args[s].live =>
             /\ (pow_args[s].result = RESULT_NOT_READY) <=> (writes[s] = <<>>)
             /\ writes[s] = <<>> => pow_args[s].nonce = 0
             /\ writes[s] # <<>> =>
                  /\ pow_args[s].result = writes[s][1].res
                  /\ pow_args[s].nonce = writes[s][1].nonce
                  /\ writes[s][1].res # RESULT_NOT_READY

\* two workers and the launch step have all been through set_result with
\* different pairs, and one pair is stored
C2_Witness ==
    \E s \in Searches :
        /\ \E j, k \in Reported(s) :
             /\ wset[s][j].res = RESULT_OK
             /\ wset[s][k].res = RESULT_OVERFLOW
        /\ failed[s] # NoThread
        /\ mpc[s] \in {"join", "finish", "returned"}
        /\ Len(writes[s]) = 1

\* C3: pow() returns only after every worker it launched has terminated: in
\* no state has pow() returned while a worker of the call is running, and
\* every worker launched has been joined
C3_NoWorkerOutlivesCall ==
    \A s \in Searches :
        Returned(s) =>
            /\ Running(s) = {}
            /\ joined[s] = Launched(s)

\* pow() has returned after launching and joining several workers
C3_Witness ==
    \E s \in Searches :
        /\ Returned(s)
        /\ Cardinality(Launched(s)) >= 3
        /\ joined[s] = Launched(s)

\* C4: if pow() returns -1 (Overflow), no nonce in [0, max_nonce] satisfies
\* the target, for every pool size and every interleaving
C4_OverflowMeansExhausted ==
    \A s \in Searches :
        (Returned(s) /\ ret[s] = RESULT_OVERFLOW) => NoSolution(s)

\* C5: if all threads are spawned and no nonce in [0, max_nonce] satisfies
\* the target, pow() terminates under fair scheduling and returns -1, for
\* every non-zero max_nonce up to UINT64_MAX
C5_UnsatisfiableReturnsOverflow ==
    \A s \in Searches :
        (AllSpawned(s) /\ params[s].max_nonce # 0 /\ NoSolution(s))
            ~> (Returned(s) /\ ret[s] = RESULT_OVERFLOW)

\* the end-to-end scenario: four workers, a target every nonce meets
EndToEnd(s) ==
    /\ params[s].pool_size = 4
    /\ params[s].target = UINT64_MAX
    /\ params[s].max_nonce = 1000

\* C6 as claimed: with target = 0xFFFFFFFFFFFFFFFF, pool_size = 4 and
\* max_nonce = 1000 the search returns success with nonce 0 under every
\* scheduling of the four workers
C6_ReturnsNonceZero ==
    \A s \in Searches :
        (EndToEnd(s) /\ AllSpawned(s) /\ Returned(s)) =>
            (ret[s] = RESULT_OK /\ out_nonce[s] = 0)

\* C6 as amended: with the four workers spawned the search returns success
\* with the index, 0 to 3, of the worker whose set_result stored first; when
\* a pthread_create failed it returns the index of a worker spawned before
\* the failure, or -2
C6_ReturnsWinnersIndex ==
    \A s \in Searches :
        (EndToEnd(s) /\ Returned(s)) =>
            IF failed[s] = NoThread
            THEN /\ ret[s] = RESULT_OK
                 /\ out_nonce[s] \in 0..3
                 /\ writes[s][1].by = out_nonce[s]
            ELSE \/ ret[s] = RESULT_ERROR
                 \/ ret[s] = RESULT_OK /\ out_nonce[s] \in 0..(failed[s] - 1)

\* the four workers were spawned and the last of them won
C6_Witness ==
    \E s \in Searches :
        /\ EndToEnd(s) /\ AllSpawned(s) /\ Returned(s)
        /\ ret[s] = RESULT_OK
        /\ out_nonce[s] = 3

\* C7: pow() called with pool_size = 0 or pool_size > 1024 returns -3 without
\* spawning a worker, initialising the mutex or the Outcome, or writing
\* *nonce; for a pool_size in [1, 1024] it does not return -3
C7_BadPoolSizeRejected ==
    \A s \in Searches :
        mpc[s] # "idle" =>
            IF params[s].pool_size = 0 \/ params[s].pool_size > 1024
            THEN /\ Launched(s) = {}
                 /\ ~pow_args[s].live
                 /\ mutex[s] = NoMutex
                 /\ writes[s] = <<>>
                 /\ out_nonce[s] = Unwritten
                 /\ ~hashed[s]
                 /\ Returned(s) => ret[s] = RESULT_BAD_INPUT
            ELSE /\ ret[s] # RESULT_BAD_INPUT
                 /\ mpc[s] # "begin" => pow_args[s].live

\* pow() has returned -3 for a pool of 1025
C7_Witness ==
    \E s \in Searches :
        /\ Returned(s)
        /\ ret[s] = RESULT_BAD_INPUT
        /\ params[s].pool_size = MAX_POOL_SIZE + 1

\* a powAsync call whose digest is not HASH_SIZE bytes long
WrongLength(s) ==
    /\ args[s].entry = "powAsync"
    /\ args[s].typed
    /\ Len(args[s].initial_hash) # HASH_SIZE

SpawnFailureSafe(s) ==
    failed[s] # NoThread =>
        /\ failed[s] < params[s].pool_size
        /\ Launched(s) = {k \in Workers : k < failed[s]}
        /\ joined[s] \subseteq Launched(s)
        /\ mpc[s] \in {"sr_unlock", "join", "finish", "returned"} =>
             /\ pow_args[s].result # RESULT_NOT_READY
             /\ Len(writes[s]) = 1
             /\ pow_args[s].result = writes[s][1].res
             /\ (pow_args[s].result = RESULT_ERROR) <=> (writes[s][1].by = MainThread)
        /\ Returned(s) =>
             /\ joined[s] = Launched(s)
             /\ ret[s] = pow_args[s].result

\* C9: if pthread_create fails for worker j, pow() launches no worker with
\* index >= j, sets the Outcome to InternalError only if it is still not
\* ready, joins exactly the workers 0..j-1 and returns the Outcome; under fair
\* scheduling the call returns
C9_SpawnFailureHandled ==
    /\ [](\A s \in Searches : SpawnFailureSafe(s))
    /\ \A s \in Searches : (failed[s] # NoThread) ~> Returned(s)

\* the third pthread_create failed after a worker had recorded a nonce, and
\* pow() has returned that nonce
C9_Witness ==
    \E s \in Searches :
        /\ failed[s] = 2
        /\ Returned(s)
        /\ ret[s] = RESULT_OK
        /\ joined[s] = {0, 1}

\* C10: every completed pow() call returns one of 0, -1, -2, -3 and never
\* RESULT_NOT_READY: once the launched workers are joined the Outcome is
\* terminal, and a return of 0 carries the one nonce that was stored
C10_TerminalStatusOnReturn ==
    \A s \in Searches :
        /\ (pow_args[s].live /\ mpc[s] \in {"finish", "returned"}) =>
             pow_args[s].result # RESULT_NOT_READY
        /\ Returned(s) =>
             /\ ret[s] \in {RESULT_OK, RESULT_OVERFLOW, RESULT_ERROR, RESULT_BAD_INPUT}
             /\ (ret[s] = RESULT_OK) <=> (out_nonce[s] # Unwritten)
             /\ ret[s] = RESULT_OK =>
                  /\ Len(writes[s]) = 1
                  /\ writes[s][1].res = RESULT_OK
                  /\ out_nonce[s] = writes[s][1].nonce

\* pow() has returned -2 after joining the workers it had launched
C10_Witness ==
    \E s \in Searches :
        /\ Returned(s)
        /\ ret[s] = RESULT_ERROR
        /\ Cardinality(joined[s]) >= 2

\* C11: whenever pow() returns 0 the nonce is at most the effective max_nonce
\* (the max_nonce supplied, INT64_MAX when 0 was supplied), and no worker
\* hashes or reports a candidate above it: the test of the counter comes
\* before the hash in every turn of the loop
C11_NonceWithinMaxNonce ==
    \A s \in Searches :
        LET bound == IF params[s].max_nonce = 0 THEN INT64_MAX
                                                ELSE params[s].max_nonce
        IN  /\ \A k \in Workers :
                  /\ wpc[s][k] = "hash" => wi[s][k] <= bound
                  /\ wset[s][k].res = RESULT_OK => wset[s][k].nonce <= bound
            /\ pow_args[s].result = RESULT_OK => pow_args[s].nonce <= bound
            /\ (Returned(s) /\ ret[s] = RESULT_OK) => out_nonce[s] <= bound

\* pow() has returned the largest candidate allowed, while another worker
\* had gone past max_nonce
C11_Witness ==
    \E s \in Searches :
        /\ Returned(s) /\ ret[s] = RESULT_OK
        /\ params[s].max_nonce # 0
        /\ out_nonce[s] = params[s].max_nonce
        /\ \E k \in Workers : wset[s][k].res = RESULT_OVERFLOW

\* C12: for every call of powAsync with a completion handler the handler is
\* invoked exactly once, never zero times, also when the call is rejected
\* for its pool size, its digest length or a failed allocation, and never
\* twice; it receives the nonce or an error.  Stated of the calls that are
\* over: PowAsync has thrown, or HandleOKCallback has run
C12_HandlerInvokedOnce ==
    \A s \in Searches :
        /\ Len(callbacks[s]) <= 1
        /\ (args[s].entry = "powAsync" /\ args[s].typed
              /\ jpc[s] \in {"threw", "done"}) =>
             /\ Len(callbacks[s]) = 1
             /\ \/ callbacks[s][1].err # ""
                \/ callbacks[s][1].nonce = out_nonce[s]

\* the Outcome of search s is terminal
Terminal(s) == pow_args[s].live /\ pow_args[s].result # RESULT_NOT_READY

\* C13: once the Outcome is terminal no worker begins another double hash,
\* so each running worker makes at most the one attempt it had in flight; a
\* worker that reads a terminal Outcome at the head of its loop stops without
\* hashing and without calling set_result; and under fair scheduling all
\* workers have stopped in the end
C13_WorkersStopOnceTerminal ==
    /\ [][\A s \in Searches : \A k \in Workers :
            Terminal(s) =>
                /\ wpc'[s][k] = "hash" => wpc[s][k] = "hash"
                /\ (wpc[s][k] = "poll" /\ wpc'[s][k] # "poll") =>
                      (wpc'[s][k] = "exited" /\ wi'[s][k] = wi[s][k])]_vars
    /\ \A s \in Searches :
          Terminal(s) ~> (Running(s) = {} /\ mpc[s] # "spawn")

\* the Outcome is terminal while one worker has an attempt in flight and
\* another has stopped at the head of its loop, without a set_result call
C13_Witness ==
    \E s \in Searches : \E j, k \in Workers :
        /\ Terminal(s)
        /\ wpc[s][j] = "hash"
        /\ wpc[s][k] = "exited"
        /\ wset[s][k].res = RESULT_NOT_READY

\* C14: with every pthread_create succeeding pow() launches exactly
\* pool_size workers, with the indices 0..pool_size-1, and worker k only ever
\* tests candidates congruent to k modulo pool_size, so that no candidate is
\* tested by two workers and each nonce of [0, max_nonce] belongs to the
\* progression of exactly one worker
C14_WorkersPartitionCandidates ==
    \A s \in Searches :
        /\ AllSpawned(s) =>
              Launched(s) = {k \in Workers : k < params[s].pool_size}
        /\ (pow_args[s].live /\ failed[s] = NoThread) =>
              /\ \A k \in Launched(s) :
                    wpc[s][k] = "hash" => wi[s][k] % params[s].pool_size = k
              /\ \A j, k \in Launched(s) :
                    (j # k /\ wpc[s][j] = "hash" /\ wpc[s][k] = "hash") =>
                        wi[s][j] # wi[s][k]

\* C15: every read and every write of the Outcome made while workers may be
\* running is made by a thread that holds the mutex: a step that changes
\* pow_args->result or pow_args->nonce is taken with the mutex locked, and
\* the step in which worker k reads pow_args->result at the head of its loop
\* is taken with the mutex locked by k
C15_OutcomeAccessUnderMutex ==
    [][\A s \in Searches :
         /\ (pow_args[s].live /\ pow_args'[s] # pow_args[s]) =>
               mutex[s].st = "locked"
         /\ \A k \in Workers :
               (wpc[s][k] = "poll" /\ wpc'[s][k] # "poll") =>
                   mutex[s] = [st |-> "locked", owner |-> k]]_vars

\* C16: the counter i of a worker is strictly increasing over the turns of
\* its loop and never comes back to a value it has tried, for every pool
\* size in [1, 1024] and every 64-bit max_nonce: no step of a worker makes
\* its counter smaller, and the step that ends an unsuccessful attempt makes
\* it larger
C16_CounterStrictlyIncreases ==
    [][\A s \in Searches : \A k \in Workers :
         wpc[s][k] # "unborn" =>
            /\ wi'[s][k] >= wi[s][k]
            /\ (wpc[s][k] = "hash" /\ wpc'[s][k] = "poll") =>
                  wi'[s][k] > wi[s][k]]_vars

\* C17: a max_nonce argument of 0 stands for the default maximum: the bound
\* every worker uses is then INT64_MAX, so that nonce 0 and larger candidates
\* are tested and Overflow is not reported at counter 1; with a max_nonce
\* other than 0, as the MAX_SAFE_INTEGER of PowWorker::Execute, the bound is
\* the value supplied
C17_ZeroMaxNonceMeansDefault ==
    \A s \in Searches :
        pow_args[s].live =>
            /\ params[s].max_nonce = 0 => pow_args[s].max_nonce = INT64_MAX
            /\ params[s].max_nonce # 0 => pow_args[s].max_nonce = params[s].max_nonce
            /\ jpc[s] # "none" => pow_args[s].max_nonce = MAX_SAFE_INTEGER
            /\ \A k \in Workers :
                  /\ wset[s][k].res = RESULT_OVERFLOW =>
                        wi[s][k] > pow_args[s].max_nonce
                  /\ (params[s].max_nonce = 0 /\ wset[s][k].res = RESULT_OVERFLOW) =>
                        wi[s][k] > INT64_MAX

\* called with max_nonce = 0, a worker has tested nonce 0 without success and
\* is testing a larger candidate
C17_Witness ==
    \E s \in Searches : \E k \in Workers :
        /\ params[s].max_nonce = 0
        /\ args[s].entry = "pow"
        /\ params[s].pool_size = 1
        /\ wpc[s][k] = "hash"
        /\ wi[s][k] >= 1

\* everything that belongs to search s
SearchState(s) ==
    <<args[s], jpc[s], thrown[s], callbacks[s], error[s], params[s], mpc[s],
      loop_i[s], pow_args[s], mutex[s], ret[s], out_nonce[s], wpc[s], wi[s],
      wset[s], failed[s], joined[s], writes[s], hashed[s]>>

\* C18: two pow() searches running in one process are independent, each with
\* its own Outcome, mutex and workers: a step of one search changes nothing
\* of the other; a worker stops at the head of its loop only on the terminal
\* Outcome of its own search; and the status and the nonce a search returns
\* are the ones stored by a thread of that search, the nonce meeting the
\* target of that search
C18_SearchesIndependent ==
    /\ [][\E s \in Searches : \A t \in Searches \ {s} :
              SearchState(t)' = SearchState(t)]_vars
    /\ [][\A s \in Searches : \A k \in Workers :
              (wpc[s][k] = "poll" /\ wpc'[s][k] = "exited") =>
                  pow_args[s].result # RESULT_NOT_READY]_vars
    /\ [](\A s \in Searches :
            (Returned(s) /\ pow_args[s].live) =>
                /\ Len(writes[s]) = 1
                /\ ret[s] = writes[s][1].res
                /\ writes[s][1].by \in Launched(s) \cup {MainThread}
                /\ ret[s] = RESULT_OK =>
                      /\ out_nonce[s] = writes[s][1].nonce
                      /\ Satisfies(out_nonce[s], params[s].initial_hash,
                                   params[s].target))

\* one search has returned a nonce while a worker of the other search, whose
\* Outcome is not ready, goes on hashing
C18_Witness ==
    \E s, t \in Searches :
        /\ s # t
        /\ Returned(s) /\ ret[s] = RESULT_OK
        /\ pow_args[t].live /\ ~Terminal(t)
        /\ \E k \in Workers : wpc[t][k] = "hash" /\ wi[t][k] >= 1

\* C19: pow() writes the caller's *nonce only when it returns 0: while it has
\* not returned, and after a return of -1, -2 or -3, *nonce is as the caller
\* left it; and the nonce of the Outcome is 0 whenever its result is Overflow
\* or InternalError
C19_NonceWrittenOnlyOnSuccess ==
    \A s \in Searches :
        /\ ~Returned(s) => out_nonce[s] = Unwritten
        /\ (Returned(s) /\ ret[s] \in {RESULT_OVERFLOW, RESULT_ERROR, RESULT_BAD_INPUT}) =>
              out_nonce[s] = Unwritten
        /\ pow_args[s].result \in {RESULT_OVERFLOW, RESULT_ERROR} =>
              pow_args[s].nonce = 0

\* pow() has returned -1 and left *nonce alone, although a worker had found
\* a nonce other than 0 and lost the race for the Outcome
C19_Witness ==
    \E s \in Searches : \E k \in Workers :
        /\ Returned(s)
        /\ ret[s] = RESULT_OVERFLOW
        /\ wset[s][k].res = RESULT_OK
        /\ wset[s][k].nonce # 0
        /\ out_nonce[s] = Unwritten

\* the threads of search s that are inside set_result, past its lock and
\* before the end of its unlock
InSetResult(s) ==
    {k \in Workers : wpc[s][k] \in {"sr_store", "sr_unlock"}}
    \cup (IF mpc[s] \in {"sr_store", "sr_unlock"} THEN {MainThread} ELSE {})

\* the threads of search s that have called set_result and wait for the mutex
Waiting(s) ==
    {k \in Workers : wpc[s][k] = "sr_lock"}
    \cup (IF mpc[s] = "sr_lock" THEN {MainThread} ELSE {})

\* C20: the mutex of the Outcome is held by at most one thread at a time;
\* every set_result call releases it before it returns, so that no worker
\* terminates holding it and no caller of set_result is blocked for ever
\* (a thread calls set_result once, so in the end, and from then on, no
\* thread waits for the mutex or holds it); and when pow() destroys the
\* mutex it is unlocked and no worker of the call is alive
C20_MutexDiscipline ==
    /\ [](\A s \in Searches :
            /\ Cardinality(InSetResult(s)) <= 1
            /\ (mutex[s].st = "locked") <=> (InSetResult(s) # {})
            /\ mutex[s].st = "locked" => InSetResult(s) = {mutex[s].owner}
            /\ mutex[s].st # "locked" => mutex[s].owner = NoThread
            /\ \A k \in Workers : wpc[s][k] = "exited" => mutex[s].owner # k
            /\ mutex[s].st = "destroyed" => Running(s) = {})
    /\ [][\A s \in Searches :
            (mutex'[s].st = "destroyed" /\ mutex[s].st # "destroyed") =>
                (mutex[s].st = "unlocked" /\ Running(s) = {})]_vars
    /\ <>[](\A s \in Searches : Waiting(s) = {} /\ InSetResult(s) = {})

\* a worker waits for the mutex that another thread of the call holds
C20_Witness ==
    \E s \in Searches : \E j, k \in Workers :
        /\ j # k
        /\ wpc[s][j] = "sr_lock"
        /\ wpc[s][k] = "sr_store"
        /\ mutex[s] = [st |-> "locked", owner |-> k]
        /\ mpc[s] = "sr_lock"

====
